---- MODULE Spec2Model ----
(***************************************************************************)
(* The useObservables hook of WatermelonDB's React bindings: the Source    *)
(* Adapter subscribe(), the trigger-prop tracking of the hook body and the *)
(* subscription effect with its per-generation closure; the render result  *)
(* of the withObservables wrapper built on the hook; and the render-prop   *)
(* <WithObservables> component, run next to the hook on the same inputs.   *)
(*                                                                         *)
(* React is modelled by what it guarantees to the hook: the hook body runs *)
(* in a render; when the effect's dependency changed, the cleanup of the   *)
(* previous effect and then the new effect body run after the render has   *)
(* been committed (passive effects), and both run before the next render.  *)
(* Producers deliver their callbacks between these steps.                  *)
(***************************************************************************)
EXTENDS Integers, Sequences, FiniteSets, TLC

\* ---------------------------------------------------------------- bounds
MaxGen == 2        \* generations (effect runs with a fresh source map) explored
MaxTrackedGen == 3 \* generations explored when no source can fail

\* ------------------------------------------------------------ value sets
Keys   == {"a", "b", "other"}      \* `other` is also the name of a prop
Self   == 0                       \* a record-tagged source emits itself
Vals   == {1, 2}                  \* the values other producers emit
NoErr  == "null"                  \* JavaScript null in the error field
Errs   == {"e1", "e2", NoErr}     \* what a producer may pass to onError
NullData  == [null |-> TRUE]      \* JavaScript null in the data field
EmptyObj  == [k \in {} |-> Self]  \* {}

Ids    == 0..4
Others == 0..1
Props  == [id : Ids, other : Others]

\* triggerProps: null, [] or ['id']
TriggerPropsChoices ==
    { [isNull |-> TRUE,  names |-> <<>>],
      [isNull |-> FALSE, names |-> <<>>],
      [isNull |-> FALSE, names |-> <<"id">>] }

\* ---------------------------------------------------------- source shapes
\* tag: value.constructor._wmelonTag; observe/subscribe: typeof ... === 'function'
Source(tag, obs, sub) == [tag |-> tag, observe |-> obs, subscribe |-> sub]
PushSrc   == Source("none",  FALSE, TRUE)     \* an rxjs Observable / Subject
ConvSrc   == Source("none",  TRUE,  FALSE)    \* { observe() }
RecordSrc == Source("model", TRUE,  FALSE)    \* a Model: tagged, and has observe()
QuerySrc  == Source("query", TRUE,  FALSE)    \* a Query: tagged, and has observe()
BothSrc   == Source("none",  TRUE,  TRUE)     \* has observe() and subscribe()
BadSrc    == Source("none",  FALSE, FALSE)    \* no recognised shape

\* The caller's factory, a fixed representative: the source map depends on
\* props.id only (props.other is an input the factory ignores). The map of
\* id 2 has a key named like the prop `other`. The ids 0 and 4 stand for two
\* distinct objects with equal contents: the factory derives equal maps.
getObservables(props) ==
    CASE props.id \in {0, 4} -> [keys |-> <<>>,    src |-> EmptyObj]
      [] props.id = 1 -> [keys |-> <<"a", "b">>, src |-> [a |-> PushSrc, b |-> ConvSrc]]
      [] props.id = 2 -> [keys |-> <<"a", "other">>,
                          src  |-> [a |-> RecordSrc, other |-> QuerySrc]]
      [] OTHER        -> [keys |-> <<"a", "b">>, src |-> [a |-> BothSrc, b |-> BadSrc]]

\* -------------------------------------------------------- pure functions
\* subscribe(): which mechanism the adapter attaches to
\* subscribe() testing for observe() and subscribe() before the tags
subscribeMechanism_ObserveFirst(value) ==
    IF value.observe THEN "observe"
    ELSE IF value.subscribe THEN "subscribe"
    ELSE IF value.tag = "model" THEN "model"
    ELSE IF value.tag = "query" THEN "query"
    ELSE "throw"

subscribeMechanism(value) ==
    IF value.tag = "model" THEN "model"
    ELSE IF value.tag = "query" THEN "query"
    ELSE IF value.observe THEN "observe"
    ELSE IF value.subscribe THEN "subscribe"
    ELSE "throw"

hasOwn(obj, key) == key \in DOMAIN obj

\* getTriggeringProps watching every prop, whatever propNames lists
getTriggeringProps_AllProps(props, propNames) ==
    <<props.id, props.other>>

\* getTriggeringProps watching id even when propNames is null or empty
getTriggeringProps_IgnoresNull(props, propNames) ==
    <<props.id>>

getTriggeringProps(props, propNames) ==
    IF propNames.isNull THEN <<>>
    ELSE [i \in 1..Len(propNames.names) |-> props[propNames.names[i]]]

\* identicalArrays comparing the elements by their contents
identicalArrays_EqualContents(left, right) ==
    /\ Len(left) = Len(right)
    /\ \A i \in 1..Len(left) :
           getObservables([id |-> left[i], other |-> 0])
               = getObservables([id |-> right[i], other |-> 0])

identicalArrays(left, right) ==
    /\ Len(left) = Len(right)
    /\ \A i \in 1..Len(left) : left[i] = right[i]

\* ----------------------------------------------------------------- state
VARIABLES
    phase,                \* "init" | "committed" | "cleaned" | "idle" | "unmounted" | "crashed"
    props,                \* the props of the latest render
    triggerProps,         \* the hook's second argument, fixed for the binding
    state,                \* the useState cell: what setState last stored
    result,               \* what the latest evaluation of the hook returned
    prevTriggerPropsRef,  \* prevTriggerPropsRef.current
    observablesObject,    \* the memoised source map
    factoryCalls,         \* invocations of getObservables
    gen,                  \* effect runs so far; the closure of run g is closures[g]
    cleanupGen,           \* the run whose unsubscribeAll React holds as cleanup, or 0
    closures,             \* per effect run: the variables its callbacks close over
    component       \* a <WithObservables> given the same inputs and events

vars == <<phase, props, triggerProps, state, result, prevTriggerPropsRef,
          observablesObject, factoryCalls, gen, cleanupGen, closures,
          component>>

Loading      == [isLoading |-> TRUE,  data |-> NullData, error |-> NoErr]
Ready(data)  == [isLoading |-> FALSE, data |-> data,     error |-> NoErr]
Failed(err)  == [isLoading |-> FALSE, data |-> NullData, error |-> err]

\* the state cell starting as Ready with empty data instead of Loading
Init_StartsReady ==
    /\ phase = "init"
    /\ props \in {p \in Props : p.other = 0}
    /\ triggerProps \in TriggerPropsChoices
    /\ state = Ready(EmptyObj)
    /\ result = Loading
    /\ prevTriggerPropsRef = <<>>
    /\ observablesObject = getObservables([id |-> 0, other |-> 0])
    /\ factoryCalls = 0
    /\ gen = 0
    /\ cleanupGen = 0
    /\ closures = <<>>
    /\ component = [ state               |-> Loading,
                           prevResetOnRef      |-> <<>>,
                           memoizedObservables |-> getObservables([id |-> 0, other |-> 0]),
                           effectPending       |-> FALSE,
                           cleanup             |-> 0,
                           closures            |-> <<>> ]

Init ==
    /\ phase = "init"
    /\ props \in {p \in Props : p.other = 0}
    /\ triggerProps \in TriggerPropsChoices
    /\ state = Loading
    /\ result = Loading
    /\ prevTriggerPropsRef = <<>>
    /\ observablesObject = getObservables([id |-> 0, other |-> 0])
    /\ factoryCalls = 0
    /\ gen = 0
    /\ cleanupGen = 0
    /\ closures = <<>>
    /\ component = [ state               |-> Loading,
                           prevResetOnRef      |-> <<>>,
                           memoizedObservables |-> getObservables([id |-> 0, other |-> 0]),
                           effectPending       |-> FALSE,
                           cleanup             |-> 0,
                           closures            |-> <<>> ]

\* ------------------------------------------- the closure of one effect run
\* let isSubscribed, subscriptions, values, valueCount; const keys, keyCount.
\* subsArray names the array object `subscriptions` currently refers to;
\* attached and unsubs record, per key, that subscribe() returned a handle
\* and how often that handle was invoked.
NewClosure(obj) ==
    [ keys          |-> obj.keys,
      src           |-> obj.src,
      keyCount      |-> Len(obj.keys),
      isSubscribed  |-> TRUE,
      subscriptions |-> <<>>,
      subsArray     |-> 0,
      values        |-> EmptyObj,
      valueCount    |-> 0,
      attached      |-> {},
      unsubs        |-> [k \in DOMAIN obj.src |-> 0] ]

\* A context is a closure together with the useState cell it writes and
\* whether an exception is propagating: [c, st, thrown].
Ctx(c, st) == [c |-> c, st |-> st, thrown |-> FALSE]

\* The callbacks of one key close over unsubscribeAll, and a producer may
\* invoke them from inside an unsubscribe handle unsubscribeAll invokes.
RECURSIVE unsubscribeAll(_)

\* onNext counting every emission, not only a key's first
onNext_CountsEvery(ctx, key, value) ==
    IF ~ctx.c.isSubscribed THEN ctx
    ELSE LET valueCount == ctx.c.valueCount + 1
             values == [k \in (DOMAIN ctx.c.values) \cup {key} |->
                           IF k = key THEN value ELSE ctx.c.values[k]]
         IN  [ctx EXCEPT !.c.valueCount = valueCount,
                         !.c.values     = values,
                         !.st = IF valueCount = ctx.c.keyCount
                                THEN Ready(values) ELSE @]

\* onNext without the liveness guard
onNext_Unguarded(ctx, key, value) ==
    LET isFirstEmission == ~hasOwn(ctx.c.values, key)
        valueCount == IF isFirstEmission THEN ctx.c.valueCount + 1
                      ELSE ctx.c.valueCount
        values == [k \in (DOMAIN ctx.c.values) \cup {key} |->
                      IF k = key THEN value ELSE ctx.c.values[k]]
    IN  [ctx EXCEPT !.c.valueCount = valueCount,
                    !.c.values     = values,
                    !.st = IF valueCount = ctx.c.keyCount
                           THEN Ready(values) ELSE @]

\* onNext publishing a snapshot only when the last key emits its first value
onNext_PublishesOnce(ctx, key, value) ==
    IF ~ctx.c.isSubscribed THEN ctx
    ELSE LET isFirstEmission == ~hasOwn(ctx.c.values, key)
             valueCount == IF isFirstEmission THEN ctx.c.valueCount + 1
                           ELSE ctx.c.valueCount
             values == [k \in (DOMAIN ctx.c.values) \cup {key} |->
                           IF k = key THEN value ELSE ctx.c.values[k]]
         IN  [ctx EXCEPT !.c.valueCount = valueCount,
                         !.c.values     = values,
                         !.st = IF isFirstEmission /\ valueCount = ctx.c.keyCount
                                THEN Ready(values) ELSE @]

\* onNext taking the generation as ended only once its handles were dropped
onNext_GuardsOnHandles(ctx, key, value) ==
    IF ~ctx.c.isSubscribed /\ ctx.c.subscriptions = <<>> THEN ctx
    ELSE LET isFirstEmission == ~hasOwn(ctx.c.values, key)
             valueCount == IF isFirstEmission THEN ctx.c.valueCount + 1
                           ELSE ctx.c.valueCount
             values == [k \in (DOMAIN ctx.c.values) \cup {key} |->
                           IF k = key THEN value ELSE ctx.c.values[k]]
         IN  [ctx EXCEPT !.c.valueCount = valueCount,
                         !.c.values     = values,
                         !.st = IF valueCount = ctx.c.keyCount
                                THEN Ready(values) ELSE @]

\* onNext publishing only once more emissions than keys were counted
onNext_NeverComplete(ctx, key, value) ==
    IF ~ctx.c.isSubscribed THEN ctx
    ELSE LET isFirstEmission == ~hasOwn(ctx.c.values, key)
             valueCount == IF isFirstEmission THEN ctx.c.valueCount + 1
                           ELSE ctx.c.valueCount
             values == [k \in (DOMAIN ctx.c.values) \cup {key} |->
                           IF k = key THEN value ELSE ctx.c.values[k]]
         IN  [ctx EXCEPT !.c.valueCount = valueCount,
                         !.c.values     = values,
                         !.st = IF valueCount > ctx.c.keyCount
                                THEN Ready(values) ELSE @]

onNext(ctx, key, value) ==
    IF ~ctx.c.isSubscribed THEN ctx
    ELSE LET isFirstEmission == ~hasOwn(ctx.c.values, key)
             valueCount == IF isFirstEmission THEN ctx.c.valueCount + 1
                           ELSE ctx.c.valueCount
             values == [k \in (DOMAIN ctx.c.values) \cup {key} |->
                           IF k = key THEN value ELSE ctx.c.values[k]]
         IN  [ctx EXCEPT !.c.valueCount = valueCount,
                         !.c.values     = values,
                         !.st = IF valueCount = ctx.c.keyCount
                                THEN Ready(values) ELSE @]

onError(ctx, key, error) ==
    IF ~ctx.c.isSubscribed THEN ctx
    ELSE [unsubscribeAll(ctx) EXCEPT !.st = Failed(error)]

\* onComplete ending the generation as an error does, without an error
onComplete_EndsGeneration(ctx, key) ==
    IF ~ctx.c.isSubscribed THEN ctx ELSE unsubscribeAll(ctx)

onComplete(ctx, key) == ctx

\* --------------------------------------- what producers do to callbacks
\* One call of a producer into the callbacks of its key, or none.
None       == [kind |-> "none",     v |-> Self, e |-> NoErr]
SyncNext(v)  == [kind |-> "next",     v |-> v,    e |-> NoErr]
SyncError(e) == [kind |-> "error",    v |-> Self, e |-> e]
SyncDone   == [kind |-> "complete", v |-> Self, e |-> NoErr]

Deliver(ctx, key, sync) ==
    CASE sync.kind = "next"     -> onNext(ctx, key, sync.v)
      [] sync.kind = "error"    -> onError(ctx, key, sync.e)
      [] sync.kind = "complete" -> onComplete(ctx, key)
      [] OTHER                  -> ctx

RECURSIVE DeliverAll(_, _, _)
DeliverAll(ctx, key, calls) ==
    IF calls = <<>> THEN ctx
    ELSE DeliverAll(Deliver(ctx, key, Head(calls)), key, Tail(calls))

\* The callback the subscriber given to a record's experimentalSubscribe
\* invokes on a change notification.
RecordNotification(isDeleted) ==
    IF isDeleted THEN SyncDone ELSE SyncNext(Self)

\* Every call the producer attached by the given mechanism can make into
\* the callbacks it was handed, one after the other.
Deliveries(mechanism) ==
    CASE mechanism = "model" ->
             <<RecordNotification(FALSE), RecordNotification(TRUE)>>
      [] mechanism = "query" -> <<SyncNext(1), SyncNext(2)>>
      [] mechanism \in {"observe", "subscribe"} ->
             <<SyncNext(1), SyncNext(2),
               SyncError("e1"), SyncError("e2"), SyncError(NoErr), SyncDone>>
      [] OTHER -> <<>>

\* Producers calling back from inside an unsubscribe call, their own or a
\* sibling's: every source attached so far, from keys[i] on, makes every
\* call it can.
RECURSIVE Reenter(_, _)
Reenter(ctx, i) ==
    IF i > Len(ctx.c.keys) THEN ctx
    ELSE LET key == ctx.c.keys[i] IN
         IF key \in ctx.c.attached
         THEN Reenter(DeliverAll(ctx, key,
                          Deliveries(subscribeMechanism(ctx.c.src[key]))), i + 1)
         ELSE Reenter(ctx, i + 1)

\* unsub(): the handle of `key` invoked, the producers calling back from
\* inside it
unsub(ctx, key) == Reenter([ctx EXCEPT !.c.unsubs[key] = @ + 1], 1)

\* subscriptions.forEach((unsub) => unsub())
RECURSIVE InvokeAll(_, _)
InvokeAll(ctx, handles) ==
    IF handles = <<>> THEN ctx
    ELSE InvokeAll(unsub(ctx, Head(handles)), Tail(handles))

\* unsubscribeAll dropping the handles without invoking them
unsubscribeAll_NoInvoke(ctx) ==
    [ctx EXCEPT !.c.isSubscribed  = FALSE,
                !.c.subscriptions = <<>>,
                !.c.subsArray     = @ + 1]

\* unsubscribeAll invoking the handles but leaving isSubscribed set, no
\* producer calling back meanwhile
unsubscribeAll_KeepsFlag(ctx) ==
    [ctx EXCEPT !.c.unsubs        =
                    [k \in DOMAIN @ |->
                        IF \E i \in DOMAIN ctx.c.subscriptions :
                               ctx.c.subscriptions[i] = k
                        THEN @[k] + 1 ELSE @[k]],
                !.c.subscriptions = <<>>,
                !.c.subsArray     = @ + 1]

\* unsubscribeAll keeping the handles it invoked in `subscriptions`
unsubscribeAll_KeepsHandles(ctx) ==
    LET cleared == [ctx EXCEPT !.c.isSubscribed = FALSE]
    IN  InvokeAll(cleared, ctx.c.subscriptions)

\* isSubscribed = false; then every handle held is invoked; then
\* subscriptions = []
unsubscribeAll(ctx) ==
    LET cleared == [ctx EXCEPT !.c.isSubscribed = FALSE]
        invoked == InvokeAll(cleared, ctx.c.subscriptions)
    IN  [invoked EXCEPT !.c.subscriptions = <<>>,
                        !.c.subsArray     = @ + 1]

\* ------------------------------------------------------ the Source Adapter
\* What a producer may do synchronously, inside its own subscribe call.
SyncBehaviours(mechanism) ==
    CASE mechanism = "model" -> {None}
      [] mechanism = "query" -> {None} \cup {SyncNext(v) : v \in Vals}
      [] mechanism \in {"observe", "subscribe"} ->
             {None, SyncDone} \cup {SyncNext(v) : v \in Vals}
                              \cup {SyncError(e) : e \in Errs}
      [] OTHER -> {None}

\* the record branch of subscribe() leaving out its own onNext(value)
SyncCalls_NoInitialEmission(value, sync) ==
    LET mechanism == subscribeMechanism(value) IN
    CASE mechanism = "model" -> <<>>
      [] mechanism = "query" -> IF sync.kind = "next" THEN <<sync>> ELSE <<>>
      [] OTHER -> IF sync.kind = "none" THEN <<>> ELSE <<sync>>

\* The callbacks subscribe(value, ...) invokes before it returns, in order,
\* the producer behaving as `sync` while attaching: a record's own
\* onNext(value); for a query what experimentalSubscribe(onNext) delivers at
\* once; for observe()/subscribe() what the Observable delivers at once.
SyncCalls(value, sync) ==
    LET mechanism == subscribeMechanism(value) IN
    CASE mechanism = "model" -> <<SyncNext(Self)>>
      [] mechanism = "query" -> IF sync.kind = "next" THEN <<sync>> ELSE <<>>
      [] OTHER -> IF sync.kind = "none" THEN <<>> ELSE <<sync>>

\* subscribe() reporting an unrecognised value through onError
subscribe_ReportsViaOnError(ctx, key, value, sync) ==
    IF subscribeMechanism(value) = "throw" THEN onError(ctx, key, "e1")
    ELSE DeliverAll(ctx, key, SyncCalls(value, sync))

\* subscribe(value, onNext, onError, onComplete), the callbacks being those
\* of `key` in ctx, with the producer behaving as `sync` while attaching.
subscribe(ctx, key, value, sync) ==
    IF subscribeMechanism(value) = "throw" THEN [ctx EXCEPT !.thrown = TRUE]
    ELSE DeliverAll(ctx, key, SyncCalls(value, sync))

\* subscriptions.push(subscribe(...)): the array is read before the call, so
\* a handle returned after unsubscribeAll replaced the array is pushed onto
\* the array nobody holds any more.
SubscribeKey(ctx, key, sync) ==
    LET held == ctx.c.subsArray
        r    == subscribe(ctx, key, ctx.c.src[key], sync)
    IN  IF r.thrown THEN r
        ELSE [r EXCEPT !.c.attached = @ \cup {key},
                       !.c.subscriptions =
                           IF r.c.subsArray = held THEN Append(@, key) ELSE @]

\* What the producers of a source map do while they are being subscribed:
\* one synchronous behaviour per key.
SyncChoices(obj) ==
    { sy \in [DOMAIN obj.src -> SyncBehaviours("observe")] :
         \A k \in DOMAIN obj.src :
             sy[k] \in SyncBehaviours(subscribeMechanism(obj.src[k])) }

\* keys.forEach(...) without the isSubscribed check before each key
RECURSIVE ForEachKey_NoLivenessCheck(_, _, _)
ForEachKey_NoLivenessCheck(ctx, i, sy) ==
    IF i > Len(ctx.c.keys) \/ ctx.thrown THEN ctx
    ELSE LET key == ctx.c.keys[i] IN
         ForEachKey_NoLivenessCheck(SubscribeKey(ctx, key, sy[key]), i + 1, sy)

\* keys.forEach(...): subscribing keys[i..] in order, the producers behaving
\* as sy
RECURSIVE ForEachKey(_, _, _)
ForEachKey(ctx, i, sy) ==
    IF i > Len(ctx.c.keys) \/ ctx.thrown THEN ctx
    ELSE IF ~ctx.c.isSubscribed THEN ForEachKey(ctx, i + 1, sy)
    ELSE LET key == ctx.c.keys[i] IN
         ForEachKey(SubscribeKey(ctx, key, sy[key]), i + 1, sy)

\* the effect body without the early return for an empty source map
EffectOutcomes_NoEmptyBranch(obj) ==
    { LET r == ForEachKey(Ctx(NewClosure(obj), Loading), 1, sy) IN
      [c |-> r.c, st |-> r.st, thrown |-> r.thrown, cleanup |-> ~r.thrown,
       sync |-> sy] : sy \in SyncChoices(obj) }

\* The effect body: every outcome [c, st, thrown, cleanup], with the
\* producers' behaviour `sync` that led to it
EffectOutcomes(obj) ==
    LET c == NewClosure(obj) IN
    IF c.keyCount = 0
    THEN { [c |-> c, st |-> Ready(EmptyObj), thrown |-> FALSE, cleanup |-> FALSE,
            sync |-> sy] : sy \in SyncChoices(obj) }
    ELSE { LET r == ForEachKey(Ctx(c, Loading), 1, sy) IN
           [c |-> r.c, st |-> r.st, thrown |-> r.thrown, cleanup |-> ~r.thrown,
            sync |-> sy] : sy \in SyncChoices(obj) }

\* ------------------------------------- the <WithObservables> component
\* The render-prop component keeps its own state cell, ref, memo and effect
\* closures; its effect passes its own callbacks to subscribe().
RECURSIVE WithObservables_unsubscribeAll(_)

\* the component's onNext republishing only while not every key has emitted
WithObservables_onNext_StopsAtReady(ctx, key, value) ==
    IF ~ctx.c.isSubscribed \/ ctx.c.valueCount = ctx.c.keyCount THEN ctx
    ELSE LET isFirst == ~hasOwn(ctx.c.values, key)
             valueCount == IF isFirst THEN ctx.c.valueCount + 1
                           ELSE ctx.c.valueCount
             values == [k \in (DOMAIN ctx.c.values) \cup {key} |->
                           IF k = key THEN value ELSE ctx.c.values[k]]
         IN  [ctx EXCEPT !.c.valueCount = valueCount,
                         !.c.values     = values,
                         !.st = IF valueCount = ctx.c.keyCount
                                THEN Ready(values) ELSE @]

WithObservables_onNext(ctx, key, value) ==
    IF ~ctx.c.isSubscribed THEN ctx
    ELSE LET isFirst == ~hasOwn(ctx.c.values, key)
             valueCount == IF isFirst THEN ctx.c.valueCount + 1
                           ELSE ctx.c.valueCount
             values == [k \in (DOMAIN ctx.c.values) \cup {key} |->
                           IF k = key THEN value ELSE ctx.c.values[k]]
         IN  [ctx EXCEPT !.c.valueCount = valueCount,
                         !.c.values     = values,
                         !.st = IF valueCount = ctx.c.keyCount
                                THEN Ready(values) ELSE @]

WithObservables_onError(ctx, key, error) ==
    IF ~ctx.c.isSubscribed THEN ctx
    ELSE [WithObservables_unsubscribeAll(ctx) EXCEPT !.st = Failed(error)]

WithObservables_onComplete(ctx, key) == ctx

\* one callback of the component invoked
WithObservables_Deliver(ctx, key, call) ==
    CASE call.kind = "next"     -> WithObservables_onNext(ctx, key, call.v)
      [] call.kind = "error"    -> WithObservables_onError(ctx, key, call.e)
      [] call.kind = "complete" -> WithObservables_onComplete(ctx, key)
      [] OTHER                  -> ctx

RECURSIVE WithObservables_DeliverAll(_, _, _)
WithObservables_DeliverAll(ctx, key, calls) ==
    IF calls = <<>> THEN ctx
    ELSE WithObservables_DeliverAll(
             WithObservables_Deliver(ctx, key, Head(calls)), key, Tail(calls))

\* producers calling back into the component from inside an unsubscribe call
RECURSIVE WithObservables_Reenter(_, _)
WithObservables_Reenter(ctx, i) ==
    IF i > Len(ctx.c.keys) THEN ctx
    ELSE LET key == ctx.c.keys[i] IN
         IF key \in ctx.c.attached
         THEN WithObservables_Reenter(
                  WithObservables_DeliverAll(ctx, key,
                      Deliveries(subscribeMechanism(ctx.c.src[key]))), i + 1)
         ELSE WithObservables_Reenter(ctx, i + 1)

WithObservables_unsub(ctx, key) ==
    WithObservables_Reenter([ctx EXCEPT !.c.unsubs[key] = @ + 1], 1)

RECURSIVE WithObservables_InvokeAll(_, _)
WithObservables_InvokeAll(ctx, handles) ==
    IF handles = <<>> THEN ctx
    ELSE WithObservables_InvokeAll(
             WithObservables_unsub(ctx, Head(handles)), Tail(handles))

WithObservables_unsubscribeAll(ctx) ==
    LET cleared == [ctx EXCEPT !.c.isSubscribed = FALSE]
        invoked == WithObservables_InvokeAll(cleared, ctx.c.subscriptions)
    IN  [invoked EXCEPT !.c.subscriptions = <<>>,
                        !.c.subsArray     = @ + 1]

\* subscribe(subscribable, ...) called with the component's callbacks
WithObservables_subscribe(ctx, key, value, sync) ==
    IF subscribeMechanism(value) = "throw" THEN [ctx EXCEPT !.thrown = TRUE]
    ELSE WithObservables_DeliverAll(ctx, key, SyncCalls(value, sync))

\* subscriptions.push(subscribe(...)) in the component's effect
WithObservables_SubscribeKey(ctx, key, sync) ==
    LET held == ctx.c.subsArray
        r    == WithObservables_subscribe(ctx, key, ctx.c.src[key], sync)
    IN  IF r.thrown THEN r
        ELSE [r EXCEPT !.c.attached = @ \cup {key},
                       !.c.subscriptions =
                           IF r.c.subsArray = held THEN Append(@, key) ELSE @]

RECURSIVE WithObservables_ForEachKey(_, _, _)
WithObservables_ForEachKey(ctx, i, sy) ==
    IF i > Len(ctx.c.keys) \/ ctx.thrown THEN ctx
    ELSE IF ~ctx.c.isSubscribed THEN WithObservables_ForEachKey(ctx, i + 1, sy)
    ELSE LET key == ctx.c.keys[i] IN
         WithObservables_ForEachKey(
             WithObservables_SubscribeKey(ctx, key, sy[key]), i + 1, sy)

\* the component's effect body on memoizedObservables, the producers
\* behaving as sy: [c, st, thrown, cleanup]
WithObservables_Effect(obj, sy) ==
    LET c == NewClosure(obj) IN
    IF c.keyCount = 0
    THEN [c |-> c, st |-> Ready(EmptyObj), thrown |-> FALSE, cleanup |-> FALSE]
    ELSE LET r == WithObservables_ForEachKey(Ctx(c, Loading), 1, sy) IN
         [c |-> r.c, st |-> r.st, thrown |-> r.thrown, cleanup |-> ~r.thrown]

\* The props the parent gives the component for the hook's inputs p: the
\* watched values as resetOn, the same source map as observables.
resetOn(p) ==
    IF triggerProps.isNull THEN <<>>
    ELSE [i \in 1..Len(triggerProps.names) |-> p[triggerProps.names[i]]]

observables(p) == getObservables(p)

\* One evaluation of the component's body, up to its effect declaration.
WithObservables(w, first, resetOnProp, observablesProp) ==
    LET prevRef == IF first THEN resetOnProp ELSE w.prevResetOnRef
        resetOnChanged == ~identicalArrays(prevRef, resetOnProp)
        recompute == first \/ resetOnChanged
    IN  [w EXCEPT !.prevResetOnRef =
                      IF resetOnChanged THEN resetOnProp ELSE prevRef,
                  !.memoizedObservables =
                      IF recompute THEN observablesProp ELSE @,
                  !.effectPending = recompute]

\* React runs the cleanup the component's previous effect run returned.
WithObservables_Cleanup(w) ==
    IF w.cleanup = 0 THEN w
    ELSE LET r == WithObservables_unsubscribeAll(
                      Ctx(w.closures[w.cleanup], w.state))
         IN  [w EXCEPT !.closures[w.cleanup] = r.c,
                       !.state = r.st,
                       !.cleanup = 0]

\* React runs the component's pending effect.
WithObservables_RunEffect(w, sy) ==
    IF ~w.effectPending THEN w
    ELSE LET r == WithObservables_Effect(w.memoizedObservables, sy) IN
         [w EXCEPT !.closures = Append(@, r.c),
                   !.state = r.st,
                   !.cleanup = IF r.cleanup THEN Len(w.closures) + 1 ELSE 0,
                   !.effectPending = FALSE]

\* A producer calls back into the component's effect run g.
WithObservables_Callback(w, g, key, event) ==
    IF g > Len(w.closures) THEN w
    ELSE IF key \notin w.closures[g].attached THEN w
    ELSE LET r == WithObservables_Deliver(Ctx(w.closures[g], w.state), key, event)
         IN  [w EXCEPT !.closures[g] = r.c, !.state = r.st]

\* ---------------------------------------------------------------- actions
\* One evaluation of the hook body with props p, at most maxGen generations
\* being explored.
useObservablesUpTo(p, maxGen) ==
    /\ phase \in {"init", "idle"}
    /\ phase = "init" => p = props
    /\ LET first   == phase = "init"
           prevRef == IF first THEN getTriggeringProps(p, triggerProps)
                      ELSE prevTriggerPropsRef
           currentTriggerProps == getTriggeringProps(p, triggerProps)
           triggerPropsChanged == ~identicalArrays(prevRef, currentTriggerProps)
           recompute == first \/ triggerPropsChanged
       IN  /\ recompute => factoryCalls < maxGen
           /\ prevTriggerPropsRef' =
                  IF triggerPropsChanged THEN currentTriggerProps ELSE prevRef
           /\ observablesObject' =
                  IF recompute THEN getObservables(p) ELSE observablesObject
           /\ factoryCalls' = IF recompute THEN factoryCalls + 1 ELSE factoryCalls
           /\ phase' = IF recompute THEN "committed" ELSE "idle"
    /\ props' = p
    /\ result' = state
    /\ component' =
           WithObservables(component, phase = "init", resetOn(p), observables(p))
    /\ UNCHANGED <<triggerProps, state, gen, cleanupGen, closures>>

useObservables(p) == useObservablesUpTo(p, MaxGen)

\* React runs the cleanup the previous effect run returned.
Cleanup ==
    /\ phase = "committed"
    /\ cleanupGen # 0
    /\ LET r == unsubscribeAll(Ctx(closures[cleanupGen], state)) IN
       /\ closures' = [closures EXCEPT ![cleanupGen] = r.c]
       /\ state' = r.st
    /\ cleanupGen' = 0
    /\ phase' = "cleaned"
    /\ component' = WithObservables_Cleanup(component)
    /\ UNCHANGED <<props, triggerProps, result, prevTriggerPropsRef,
                   observablesObject, factoryCalls, gen>>

\* React runs the effect body for the new observablesObject.
Effect ==
    /\ \/ phase = "cleaned"
       \/ phase = "committed" /\ cleanupGen = 0
    /\ \E r \in EffectOutcomes(observablesObject) :
          /\ closures' = Append(closures, r.c)
          /\ state' = r.st
          /\ cleanupGen' = IF r.cleanup THEN gen + 1 ELSE 0
          /\ phase' = IF r.thrown THEN "crashed" ELSE "idle"
          /\ component' = WithObservables_RunEffect(component, r.sync)
    /\ gen' = gen + 1
    /\ UNCHANGED <<props, triggerProps, result, prevTriggerPropsRef,
                   observablesObject, factoryCalls>>

\* The host removes the component.
Unmount ==
    /\ phase = "idle"
    /\ IF cleanupGen # 0
       THEN LET r == unsubscribeAll(Ctx(closures[cleanupGen], state)) IN
            /\ closures' = [closures EXCEPT ![cleanupGen] = r.c]
            /\ state' = r.st
       ELSE UNCHANGED <<closures, state>>
    /\ cleanupGen' = 0
    /\ phase' = "unmounted"
    /\ component' = WithObservables_Cleanup(component)
    /\ UNCHANGED <<props, triggerProps, result, prevTriggerPropsRef,
                   observablesObject, factoryCalls, gen>>

\* Producers call back at any time between the steps above, whether or not
\* their unsubscribe handle was invoked.
Quiescent == phase \in {"committed", "idle", "unmounted", "crashed"}

Callback(g, r) ==
    /\ UNCHANGED <<phase, props, triggerProps, result, prevTriggerPropsRef,
                   observablesObject, factoryCalls, gen, cleanupGen>>
    /\ state' = r.st
    /\ closures' = [closures EXCEPT ![g] = r.c]

Mechanism(g, key) == subscribeMechanism(closures[g].src[key])

\* a record notifies its subscriber of a change, or of its deletion
RecordChanged(g, key, isDeleted) ==
    /\ Quiescent
    /\ key \in closures[g].attached
    /\ Mechanism(g, key) = "model"
    /\ Callback(g, Deliver(Ctx(closures[g], state), key,
                           RecordNotification(isDeleted)))
    /\ component' =
           WithObservables_Callback(component, g, key, RecordNotification(isDeleted))

\* a producer emits v: an Observable's next or a Query's snapshot
SourceNext(g, key, v) ==
    /\ Quiescent
    /\ key \in closures[g].attached
    /\ Mechanism(g, key) # "model"
    /\ Callback(g, onNext(Ctx(closures[g], state), key, v))
    /\ component' =
           WithObservables_Callback(component, g, key, SyncNext(v))

SourceError(g, key, e) ==
    /\ Quiescent
    /\ key \in closures[g].attached
    /\ Mechanism(g, key) \in {"observe", "subscribe"}
    /\ Callback(g, onError(Ctx(closures[g], state), key, e))
    /\ component' =
           WithObservables_Callback(component, g, key, SyncError(e))

\* an Observable completes
SourceComplete(g, key) ==
    /\ Quiescent
    /\ key \in closures[g].attached
    /\ Mechanism(g, key) \in {"observe", "subscribe"}
    /\ Callback(g, onComplete(Ctx(closures[g], state), key))
    /\ component' =
           WithObservables_Callback(component, g, key, SyncDone)

Next ==
    \/ \E p \in Props : useObservables(p)
    \/ Cleanup
    \/ Effect
    \/ Unmount
    \/ \E g \in 1..gen, key \in Keys, isDeleted \in BOOLEAN :
           RecordChanged(g, key, isDeleted)
    \/ \E g \in 1..gen, key \in Keys, v \in Vals : SourceNext(g, key, v)
    \/ \E g \in 1..gen, key \in Keys, e \in Errs : SourceError(g, key, e)
    \/ \E g \in 1..gen, key \in Keys : SourceComplete(g, key)

Spec == Init /\ [][Next]_vars

\* A source of the current generation that has not emitted yet emits.
FirstEmission ==
    \E g \in 1..gen, key \in Keys, v \in Vals :
        /\ phase = "idle"
        /\ g = gen
        /\ closures[g].isSubscribed
        /\ key \in closures[g].attached
        /\ ~hasOwn(closures[g].values, key)
        /\ SourceNext(g, key, v)

\* The binding with sources that do emit: as long as the current generation
\* lasts, a source that has not emitted does not stay silent for ever.
LiveSpec == Init /\ [][Next]_vars /\ WF_vars(FirstEmission)

\* The binding over props whose source map holds records and queries only,
\* explored through more generations: such sources have no error callback
\* and do not complete, which leaves the other steps.
TrackerProps ==
    { p \in Props :
        \A k \in DOMAIN getObservables(p).src :
            subscribeMechanism(getObservables(p).src[k]) \in {"model", "query"} }

TrackerInit == Init /\ props \in TrackerProps

TrackerNext ==
    \/ \E p \in TrackerProps : useObservablesUpTo(p, MaxTrackedGen)
    \/ Cleanup
    \/ Effect
    \/ Unmount
    \/ \E g \in 1..gen, key \in Keys, isDeleted \in BOOLEAN :
           RecordChanged(g, key, isDeleted)
    \/ \E g \in 1..gen, key \in Keys, v \in Vals : SourceNext(g, key, v)

TrackerSpec == TrackerInit /\ [][TrackerNext]_vars

\* ------------------------------------------------------------ vocabulary
KeySet(c) == {c.keys[i] : i \in 1..Len(c.keys)}
Gens == 1..gen

\* generation g's liveness flag is set
Live(g) == closures[g].isSubscribed
\* generation g ended by a source error: its flag is cleared while React
\* still holds its cleanup
Errored(g) == ~closures[g].isSubscribed /\ cleanupGen = g
\* the keys of g that emitted while g was live
Emitted(g) == DOMAIN closures[g].values

IsLoading(st) == st.isLoading /\ st.data = NullData /\ st.error = NoErr
IsReady(st)   == ~st.isLoading /\ st.data # NullData /\ st.error = NoErr
IsErrored(st) == ~st.isLoading /\ st.data = NullData /\ st.error # NoErr

\* ------------------------------------------- the withObservables wrapper
\* `if (error)`: null is the falsy value among Errs
Truthy(error) == error # NoErr

\* { ...obj }: spreading null contributes nothing
Spread(obj) == IF obj = NullData THEN EmptyObj ELSE obj

\* { ...data, ...props }: an original prop winning over a data entry
MergeProps_PropsWin(p, data) ==
    [k \in (DOMAIN p) \cup (DOMAIN Spread(data)) |->
        IF k \in DOMAIN p THEN p[k] ELSE data[k]]

\* { ...props, ...data }
MergeProps(p, data) ==
    [k \in (DOMAIN p) \cup (DOMAIN Spread(data)) |->
        IF k \in DOMAIN Spread(data) THEN data[k] ELSE p[k]]

RenderedNull       == [kind |-> "null"]
Thrown(error)      == [kind |-> "throw", error |-> error]
Element(baseProps) == [kind |-> "element", props |-> baseProps]

\* WithObservablesWrapper(props), `returned` being what its call of
\* useObservables returned
WithObservablesWrapper(p, returned) ==
    IF returned.isLoading THEN RenderedNull
    ELSE IF Truthy(returned.error) THEN Thrown(returned.error)
    ELSE Element(MergeProps(p, returned.data))

\* what the wrapper rendered in the latest evaluation
rendered == WithObservablesWrapper(props, result)

\* ---------------------------------------------------------------- claims

\* C1: within a live generation over a source map with K >= 1 keys,
\* isLoading is true exactly as long as some key has not yet emitted;
\* repeated emissions of one key count once.
C1_LoadingUntilAllEmitted ==
    \A g \in Gens :
        (closures[g].keyCount >= 1 /\ Live(g)) =>
            (state.isLoading <=> Emitted(g) # KeySet(closures[g]))

\* a live two-key generation, one key emitted twice over, both emitted: Ready
C1_Witness ==
    \E g \in Gens :
        /\ Live(g) /\ closures[g].keyCount = 2
        /\ Emitted(g) = KeySet(closures[g])
        /\ closures[g].values["a"] = 2
        /\ ~state.isLoading
        /\ result = state

\* C2 (as claimed): the state is always exactly one of Loading, Ready and
\* Errored, whatever value a source passes to its error callback.
C2_ExactlyOneStatus ==
    IsLoading(state) \/ IsReady(state) \/ IsErrored(state)

\* C3: when a source of a live generation calls its error callback with e,
\* the state becomes {isLoading: false, data: null, error: e}, the handle
\* of every other source subscribed in that generation is invoked, and
\* nothing is thrown - for an error delivered later and for one delivered
\* synchronously while the key is being subscribed.
C3_ErrorStep ==
    /\ \A g \in Gens :
          Live(g) =>
              \A key \in closures[g].attached, e \in Errs :
                  SourceError(g, key, e) =>
                      /\ state' = Failed(e)
                      /\ phase' = phase
                      /\ \A j \in closures[g].attached \ {key} :
                             closures'[g].unsubs[j] = closures[g].unsubs[j] + 1
    /\ (gen' = gen + 1 /\ ~closures'[gen'].isSubscribed) =>
              /\ \E e \in Errs : state' = Failed(e)
              /\ phase' = "idle"
              /\ \E key \in closures'[gen'].attached :
                     \A j \in closures'[gen'].attached \ {key} :
                         closures'[gen'].unsubs[j] = 1

\* C3: every step satisfies C3_ErrorStep: an accepted error stores
\* {false, null, e} and invokes the handles of all other subscribed sources.
C3_ErrorCancelsOthers == [][C3_ErrorStep]_vars

\* a Ready two-key generation that then failed with e1: both handles invoked
C3_Witness ==
    \E g \in Gens :
        /\ Errored(g)
        /\ Emitted(g) = {"a", "b"}
        /\ state = Failed("e1")
        /\ \A j \in {"a", "b"} : closures[g].unsubs[j] = 1

\* C4: once a generation is Errored, no step changes the state before a new
\* generation starts: neither an emission nor a second error of any of its
\* sources; the state keeps the first error.
C4_ErroredStep ==
    \A g \in Gens :
        (Errored(g) /\ gen' = gen) =>
            /\ state' = state
            /\ ~state.isLoading /\ state.data = NullData

\* C4: every step satisfies C4_ErroredStep: an Errored generation's state
\* stays as the first error left it until a new generation starts.
C4_ErroredIsFinal == [][C4_ErroredStep]_vars

\* an Errored generation, one of whose sources had not emitted before
C4_Witness ==
    \E g \in Gens :
        /\ Errored(g)
        /\ phase = "idle"
        /\ Emitted(g) = {"b"}
        /\ closures[g].attached = {"a", "b"}
        /\ state = Failed("e2")

\* C5 (as claimed): from the evaluation that detected changed trigger props
\* onward, no callback of a source of the outgoing generation changes the
\* state.
C5_SupersededStep ==
    \A g \in Gens, key \in Keys :
        (g < gen \/ (g = gen /\ phase = "committed")) =>
            /\ \A v \in Vals : SourceNext(g, key, v) => state' = state
            /\ RecordChanged(g, key, FALSE) => state' = state
            /\ \A e \in Errs : SourceError(g, key, e) => state' = state

\* C5 (as claimed): every step satisfies C5_SupersededStep: callbacks of a
\* generation under replacement, or replaced, never change the state.
C5_NoStaleCallback == [][C5_SupersededStep]_vars

\* the generations holding a subscription that was opened and whose
\* unsubscribe handle was not invoked
OpenGens ==
    { g \in Gens : \E k \in closures[g].attached : closures[g].unsubs[k] = 0 }

\* C6 (as claimed): at most one generation has open subscriptions: every
\* handle of the outgoing generation is invoked before the incoming one
\* subscribes.
C6_OneOpenGeneration == Cardinality(OpenGens) <= 1

\* C7 (as claimed): with triggerProps ['id'], after an evaluation with a
\* changed id the factory has run on the new props; the effect that follows
\* has every subscription of the previous generation closed, subscribes the
\* new map, and leaves the state reset: Loading, or what the new
\* generation's own sources made of it.
C7_ResubscribeStep ==
    (gen >= 1 /\ gen' = gen + 1 /\ triggerProps.names = <<"id">>) =>
        /\ observablesObject = getObservables(props)
        /\ closures'[gen'].src = observablesObject.src
        /\ \A k \in closures[gen].attached : closures'[gen].unsubs[k] >= 1
        /\ \/ state' = Loading
           \/ state' = Ready(closures'[gen'].values)
           \/ \E e \in Errs : state' = Failed(e)

\* C7 (as claimed): every effect run after a changed id satisfies
\* C7_ResubscribeStep: old subscriptions all closed, new map subscribed,
\* state reset.
C7_Resubscribes == [][C7_ResubscribeStep]_vars

\* C8: an evaluation in which only unwatched inputs changed leaves the
\* engine as it was: no factory call, no handle invoked, no subscribe, the
\* state cell untouched and returned as it is.
C8_UnwatchedStep ==
    ( /\ props' # props
      /\ phase = "idle"
      /\ \A i \in 1..Len(triggerProps.names) :
             props'[triggerProps.names[i]] = props[triggerProps.names[i]] ) =>
        /\ UNCHANGED <<factoryCalls, observablesObject, closures, gen,
                       cleanupGen, state, phase>>
        /\ result' = state

\* C8: every step satisfies C8_UnwatchedStep: a change of unwatched inputs
\* alone leaves factory, subscriptions and state untouched.
C8_UnwatchedChangeIsNoop == [][C8_UnwatchedStep]_vars

\* with ['id'] watched, `other` changed under a Ready first generation that
\* is still the only one, none of its handles invoked
C8_Witness ==
    /\ triggerProps.names = <<"id">>
    /\ props.other = 1
    /\ gen = 1 /\ factoryCalls = 1 /\ phase = "idle"
    /\ Live(1) /\ closures[1].attached = {"a", "b"}
    /\ \A k \in {"a", "b"} : closures[1].unsubs[k] = 0
    /\ IsReady(state) /\ result = state

\* C9: with triggerProps null or [], the factory runs exactly once and no
\* source is subscribed a second time, however the props change; a first
\* generation that is live has each of its sources subscribed once.
C9_SubscribeOnce ==
    triggerProps.names = <<>> =>
        /\ factoryCalls <= 1 /\ gen <= 1
        /\ phase # "init" => factoryCalls = 1
        /\ \A g \in Gens :
              /\ closures[g].src = observablesObject.src
              /\ Len(closures[g].subscriptions) <= closures[g].keyCount
              /\ (Live(g) /\ phase # "crashed") =>
                     /\ closures[g].attached = KeySet(closures[g])
                     /\ closures[g].subscriptions = closures[g].keys

\* triggerProps null, the id changed since the factory ran, still one
\* generation with its two subscriptions
C9_Witness ==
    /\ triggerProps.isNull
    /\ observablesObject # getObservables(props)
    /\ gen = 1 /\ factoryCalls = 1 /\ phase = "idle"
    /\ closures[1].subscriptions = <<"a", "b">>
    /\ result = state

\* C10: a generation over the empty source map is Ready with data {} at
\* once, and subscribe is never called in it.
C10_EmptyMap ==
    \A g \in Gens :
        closures[g].keyCount = 0 =>
            /\ closures[g].attached = {}
            /\ closures[g].subscriptions = <<>>
            /\ g = gen => state = Ready(EmptyObj)

\* the empty map as second generation, after a Ready first one
C10_Witness ==
    /\ gen = 2
    /\ closures[2].keyCount = 0
    /\ Emitted(1) = {"a", "b"}
    /\ state = Ready(EmptyObj)

\* C11: when the binding is unmounted while its generation is live and no
\* source has emitted, the unmount invokes the unsubscribe handle of every
\* source of the map exactly once; once unmounted, no emission, error or
\* completion changes the state or invokes a handle again.
C11_TeardownStep ==
    /\ ( /\ phase = "idle" /\ phase' = "unmounted"
         /\ cleanupGen # 0 /\ Live(cleanupGen)
         /\ Emitted(cleanupGen) = {} ) =>
           /\ closures[cleanupGen].attached = KeySet(closures[cleanupGen])
           /\ \A k \in KeySet(closures[cleanupGen]) :
                  /\ closures[cleanupGen].unsubs[k] = 0
                  /\ closures'[cleanupGen].unsubs[k] = 1
           /\ state' = state
    /\ phase = "unmounted" =>
           /\ state' = state
           /\ \A g \in Gens : closures'[g].unsubs = closures[g].unsubs

\* C11: every step satisfies C11_TeardownStep: unmounting before any
\* emission invokes each handle once, and nothing delivered after the
\* unmount changes the state.
C11_TeardownBeforeEmission == [][C11_TeardownStep]_vars

\* unmounted while Loading, nothing emitted, both handles invoked once
C11_Witness ==
    /\ phase = "unmounted"
    /\ gen = 1 /\ closures[1].keyCount = 2
    /\ Emitted(1) = {}
    /\ state = Loading
    /\ \A k \in KeySet(closures[1]) : closures[1].unsubs[k] = 1

\* C12: the first evaluation of a binding returns Loading and the wrapper
\* renders null in it, whatever the sources do while the effect that follows
\* subscribes them; the inner component is rendered only by a later
\* evaluation.
C12_FirstEvaluationLoading ==
    /\ (phase # "init" /\ factoryCalls = 1 /\ gen = 0) =>
           /\ result = Loading
           /\ rendered = RenderedNull
    /\ rendered.kind = "element" => gen >= 1

\* the first effect subscribed a record and a query that both emitted at
\* once: the cell is Ready, the only evaluation so far returned Loading
C12_Witness ==
    /\ gen = 1 /\ factoryCalls = 1 /\ phase = "idle"
    /\ closures[1].keys = <<"a", "other">>
    /\ Mechanism(1, "a") = "model"
    /\ IsReady(state)
    /\ result = Loading /\ rendered = RenderedNull

\* C13 (as claimed): once a trigger prop changed, no evaluation returns
\* Ready data - so the wrapper renders no inner component - from the
\* evaluation that detects the change until every source of the new
\* generation has emitted.
C13_EvaluationStep ==
    \A p \in Props :
        LET newGenerationPending == phase' = "committed"
            newGenerationWaiting ==
                gen = factoryCalls' /\ Emitted(gen) # KeySet(closures[gen])
        IN  ( /\ useObservables(p)
              /\ factoryCalls' >= 2
              /\ newGenerationPending \/ newGenerationWaiting ) =>
                /\ ~IsReady(result')
                /\ WithObservablesWrapper(p, result').kind # "element"

\* C13 (as claimed): every evaluation satisfies C13_EvaluationStep: none
\* returns Ready data between the detection of a changed trigger prop and
\* the last first value of the new generation.
C13_PausedUntilNewValues == [][C13_EvaluationStep]_vars

\* C14: when a live generation is Ready and its source under key emits v,
\* the state stays Ready with data[key] = v and every other entry of data as
\* it was; a Ready state does not become Loading while the generation lasts;
\* and the data of a Ready live generation are the values last emitted.
C14_EmissionStep ==
    /\ \A g \in Gens :
          (Live(g) /\ Emitted(g) = KeySet(closures[g]) /\ IsReady(state)) =>
              \A key \in closures[g].attached, v \in Vals \cup {Self} :
                  ( \/ SourceNext(g, key, v)
                    \/ v = Self /\ RecordChanged(g, key, FALSE) ) =>
                      /\ IsReady(state')
                      /\ DOMAIN state'.data = DOMAIN state.data
                      /\ state'.data[key] = v
                      /\ closures'[g].values[key] = v
                      /\ \A j \in KeySet(closures[g]) \ {key} :
                             state'.data[j] = state.data[j]
    /\ (IsReady(state) /\ gen' = gen) => ~state'.isLoading
    /\ \A g \in Gens :
          (Live(g) /\ closures[g].keyCount >= 1 /\ IsReady(state)) =>
              state.data = closures[g].values

\* C14: every step satisfies C14_EmissionStep: an emission into a Ready
\* generation replaces that key's entry only and the state stays Ready.
C14_ReadyUpdatesOneKey == [][C14_EmissionStep]_vars

\* a was 1 when the latest evaluation returned Ready; a then emitted 2: the
\* cell is Ready with a = 2 and b as before
C14_Witness ==
    \E g \in Gens :
        /\ Live(g)
        /\ result = Ready([a |-> 1, b |-> 2])
        /\ state = Ready([a |-> 2, b |-> 2])
        /\ closures[g].values = [a |-> 2, b |-> 2]

\* C15 (as claimed): whenever an evaluation returns a Ready state, the keys
\* of its data are the keys of the source map the factory computed last, and
\* each of them has emitted in the generation subscribed to that map.
C15_ReturnedStep ==
    \A p \in Props :
        (useObservables(p) /\ IsReady(result')) =>
            /\ DOMAIN result'.data =
                   {observablesObject'.keys[i] : i \in 1..Len(observablesObject'.keys)}
            /\ gen = factoryCalls'
            /\ closures[gen].src = observablesObject'.src
            /\ Emitted(gen) = KeySet(closures[gen])

\* C15 (as claimed): every evaluation satisfies C15_ReturnedStep: returned
\* Ready data have exactly the keys of the current source map, all emitted
\* since its generation started.
C15_ReadyMatchesCurrentMap == [][C15_ReturnedStep]_vars

\* C16: the adapter attaches by the first matching shape in the order record
\* tag, query tag, observe(), subscribe(). A tagged source that also has
\* observe() is attached through its tag: a record has emitted itself as
\* soon as it is attached and its latest value is always itself, and a
\* generation of tagged sources only is never ended by an error, observe()
\* and its error channel not being used; an untagged source with observe()
\* and subscribe() is attached through observe().
C16_FirstMatchWins ==
    \A g \in Gens :
        /\ \A k \in closures[g].attached :
              LET value == closures[g].src[k] IN
              /\ value.tag = "model" =>
                     /\ Mechanism(g, k) = "model"
                     /\ hasOwn(closures[g].values, k)
                     /\ closures[g].values[k] = Self
              /\ value.tag = "query" => Mechanism(g, k) = "query"
              /\ (value.tag = "none" /\ value.observe) =>
                     Mechanism(g, k) = "observe"
              /\ (value.tag = "none" /\ ~value.observe /\ value.subscribe) =>
                     Mechanism(g, k) = "subscribe"
        /\ (\A k \in KeySet(closures[g]) : closures[g].src[k].tag # "none") =>
              /\ ~Errored(g)
              /\ closures[g].attached = KeySet(closures[g])
              /\ g = gen => ~IsErrored(state)

\* a record and a query, both having observe() too, attached by their tags;
\* the record emitted itself, the query a snapshot
C16_Witness ==
    \E g \in Gens :
        /\ closures[g].attached = {"a", "other"}
        /\ closures[g].src["a"].tag = "model" /\ closures[g].src["a"].observe
        /\ closures[g].src["other"].tag = "query" /\ closures[g].src["other"].observe
        /\ closures[g].values = [a |-> Self, other |-> 1]

\* C17: a source of no recognised shape makes subscribe() throw out of the
\* effect that reaches it: the effect ends crashed with the state still
\* Loading, the source gets no handle and none of its callbacks ever runs,
\* so no state is Errored on its account.
C17_UnrecognisedStep ==
    /\ \A g \in Gens : \A k \in KeySet(closures[g]) :
          Mechanism(g, k) = "throw" =>
              /\ k \notin closures[g].attached
              /\ k \notin Emitted(g)
              /\ Live(g) => phase = "crashed"
              /\ \A v \in Vals : ~SourceNext(g, k, v)
              /\ \A isDeleted \in BOOLEAN : ~RecordChanged(g, k, isDeleted)
              /\ \A e \in Errs : ~SourceError(g, k, e)
              /\ ~SourceComplete(g, k)
    /\ (gen' = gen + 1 /\ phase' = "crashed") =>
          /\ state' = Loading
          /\ cleanupGen' = 0
          /\ \E k \in KeySet(closures'[gen']) :
                 subscribeMechanism(closures'[gen'].src[k]) = "throw"
    /\ (phase = "crashed" /\ IsErrored(state')) =>
          \E k \in closures[gen].attached, e \in Errs : SourceError(gen, k, e)

\* C17: every step satisfies C17_UnrecognisedStep: an unrecognised source
\* throws at subscription time and never reaches the state through a
\* callback.
C17_UnrecognisedThrows == [][C17_UnrecognisedStep]_vars

\* the effect crashed on b after a was attached and had emitted: Loading
C17_Witness ==
    /\ phase = "crashed"
    /\ Mechanism(gen, "b") = "throw"
    /\ closures[gen].attached = {"a"}
    /\ Emitted(gen) = {"a"}
    /\ state = Loading

\* C18: what the wrapper renders from the state its evaluation got: null for
\* Loading; the stored error, thrown, for Errored; for Ready the inner
\* component with every data entry and every original prop that no data
\* entry is named like.
C18_WrapperMapping ==
    /\ IsLoading(result) => rendered = RenderedNull
    /\ IsErrored(result) => rendered = Thrown(result.error)
    /\ IsReady(result) =>
          /\ rendered.kind = "element"
          /\ DOMAIN rendered.props = (DOMAIN props) \cup (DOMAIN result.data)
          /\ \A k \in DOMAIN result.data : rendered.props[k] = result.data[k]
          /\ \A k \in (DOMAIN props) \ (DOMAIN result.data) :
                 rendered.props[k] = props[k]

\* Ready data with an entry `other` = 2 rendered over the prop `other` = 0
C18_Witness ==
    /\ IsReady(result)
    /\ props = [id |-> 2, other |-> 0]
    /\ result.data = [a |-> Self, other |-> 2]
    /\ rendered = Element([id |-> 2, a |-> Self, other |-> 2])

\* C20: a completion signalled by a source - later, or synchronously while
\* it is being subscribed - changes nothing: the state, the stored values
\* with that key's last value, the count of keys that emitted, and the
\* subscriptions and handles of all sources are as before.
C20_CompletionStep ==
    \A g \in Gens :
        /\ \A key \in closures[g].attached :
               (SourceComplete(g, key) \/ RecordChanged(g, key, TRUE)) =>
                   /\ state' = state
                   /\ closures'[g].values = closures[g].values
                   /\ closures'[g].valueCount = closures[g].valueCount
                   /\ closures'[g].subscriptions = closures[g].subscriptions
                   /\ closures'[g].unsubs = closures[g].unsubs
                   /\ closures'[g].isSubscribed = closures[g].isSubscribed
                   /\ closures' = closures
        /\ \A key \in KeySet(closures[g]) :
               Deliver(Ctx(closures[g], state), key, SyncDone)
                   = Ctx(closures[g], state)

\* C20: every step satisfies C20_CompletionStep: a completion leaves state,
\* values, counts and subscriptions untouched.
C20_CompletionIsNoop == [][C20_CompletionStep]_vars

\* a Ready live generation, both sources still subscribed, whose source a
\* may complete (and the state it is in after a completed)
C20_Witness ==
    \E g \in Gens :
        /\ Live(g) /\ phase = "idle"
        /\ closures[g].subscriptions = <<"a", "b">>
        /\ Mechanism(g, "a") = "subscribe"
        /\ \A k \in {"a", "b"} : closures[g].unsubs[k] = 0
        /\ closures[g].valueCount = 2
        /\ state = Ready([a |-> 1, b |-> 1])

\* the subscriptions of effect run c that were opened and not closed
LiveSubscriptions(c) == { k \in c.attached : c.unsubs[k] = 0 }

\* C19: given the watched values as resetOn, the same source map and the
\* same events, the component holds after every step the state the hook
\* holds, has run as many effects with the same cleanup registered, and has
\* in each of them the same subscriptions open, the same handles held and
\* the same liveness flag and values.
C19_SameEngine ==
    /\ component.state = state
    /\ component.memoizedObservables = observablesObject
    /\ component.effectPending = (phase \in {"committed", "cleaned"})
    /\ component.cleanup = cleanupGen
    /\ Len(component.closures) = gen
    /\ \A g \in Gens :
          /\ LiveSubscriptions(component.closures[g])
                 = LiveSubscriptions(closures[g])
          /\ component.closures[g].subscriptions = closures[g].subscriptions
          /\ component.closures[g].isSubscribed = closures[g].isSubscribed
          /\ component.closures[g].values = closures[g].values
          /\ component.closures[g].unsubs = closures[g].unsubs

\* hook and component in their second generation, Ready after an update of
\* a, the first generation's subscriptions closed in both
C19_Witness ==
    /\ gen = 2 /\ phase = "idle"
    /\ Len(component.closures) = 2
    /\ component.state = Ready([a |-> 2, b |-> 1])
    /\ state = Ready([a |-> 2, b |-> 1])
    /\ LiveSubscriptions(component.closures[2]) = {"a", "b"}
    /\ LiveSubscriptions(component.closures[1]) = {}
    /\ closures[1].attached # {}

\* C21: for a record-tagged source, subscribe() invokes exactly one
\* callback before it returns, onNext(source), so the source has its value
\* as soon as it is attached; a later notification becomes onNext(source)
\* when isDeleted is false and onComplete when it is true; no error callback
\* is ever invoked for it.
C21_RecordProtocol ==
    \A g \in Gens : \A k \in KeySet(closures[g]) :
        LET value == closures[g].src[k] IN
        value.tag = "model" =>
            /\ \A sync \in SyncBehaviours(Mechanism(g, k)) :
                   SyncCalls(value, sync) = <<SyncNext(Self)>>
            /\ k \in closures[g].attached =>
                   /\ hasOwn(closures[g].values, k)
                   /\ closures[g].values[k] = Self
            /\ RecordNotification(FALSE) = SyncNext(Self)
            /\ RecordNotification(TRUE) = SyncDone
            /\ Mechanism(g, k) \notin {"observe", "subscribe"}
            /\ ~Errored(g)

\* a record attached next to a query: the record's value is itself while the
\* query has moved on from the snapshot the latest evaluation returned
C21_Witness ==
    \E g \in Gens :
        /\ Live(g)
        /\ closures[g].attached = {"a", "other"}
        /\ Mechanism(g, "a") = "model"
        /\ result = Ready([a |-> Self, other |-> 1])
        /\ state = Ready([a |-> Self, other |-> 2])

\* C22 (as claimed): when an evaluation invokes the factory for a new
\* generation, the outgoing generation was cancelled before: no generation
\* holds a handle that is still to be invoked.
C22_FactoryStep ==
    (factoryCalls' = factoryCalls + 1 /\ gen >= 1) =>
        \A g \in Gens : closures[g].subscriptions = <<>>

\* C22 (as claimed): every step satisfies C22_FactoryStep: the factory is
\* invoked for a new generation only after all subscriptions of the
\* outgoing one were cancelled.
C22_CancelledBeforeFactory == [][C22_FactoryStep]_vars

\* C23 (as claimed): once a generation has ended - by teardown, by a
\* generation change, by a source error delivered later or during that
\* source's own subscription, or by a failure while subscribing a later key -
\* every unsubscribe handle the adapter returned in it has been invoked.
C23_HandlesInvokedWhenEnded ==
    \A g \in Gens :
        LET ended == \/ ~Live(g)
                     \/ g < gen
                     \/ phase \in {"unmounted", "crashed"}
        IN  ended => \A k \in closures[g].attached : closures[g].unsubs[k] = 1

\* C24: an evaluation after the first starts a new generation exactly when
\* the current list of watched values differs from the recorded list in
\* length or in some position, comparing by identity; the recorded list is
\* then the current one. The component's tracker decides alike on resetOn.
C24_TrackerStep ==
    \A p \in TrackerProps :
        (phase = "idle" /\ useObservablesUpTo(p, MaxTrackedGen)) =>
            LET recorded == prevTriggerPropsRef
                current  == getTriggeringProps(p, triggerProps)
                differs  ==
                    \/ Len(current) # Len(recorded)
                    \/ \E i \in (DOMAIN current) \cap (DOMAIN recorded) :
                           current[i] # recorded[i]
            IN  /\ (factoryCalls' = factoryCalls + 1) <=> differs
                /\ (factoryCalls' = factoryCalls) <=> ~differs
                /\ (phase' = "committed") <=> differs
                /\ prevTriggerPropsRef' = current
                /\ component'.effectPending <=> differs
                /\ component'.prevResetOnRef = resetOn(p)

\* C24: every step satisfies C24_TrackerStep; so a watched value going A, B,
\* A starts two new generations, and a new object with equal contents
\* counts as a change.
C24_TrackerByIdentity == [][C24_TrackerStep]_vars

\* the watched id went 0, 4, 0 - objects with equal contents - and each
\* change started a generation: three factory calls, three effect runs
C24_Witness ==
    /\ triggerProps.names = <<"id">>
    /\ props.id = 0
    /\ prevTriggerPropsRef = <<0>>
    /\ factoryCalls = 3
    /\ gen = 3
    /\ \A g \in Gens : closures[g].src = getObservables(props).src

\* C25: when, in an effect run, the source under some key calls its error
\* callback with e while it is being subscribed, subscribe() is not called
\* for any later key of the map - nothing is attached, nothing throws - and
\* the run leaves the state as {isLoading: false, data: null, error: e}.
C25_SyncErrorStep ==
    gen' = gen + 1 =>
        \A r \in EffectOutcomes(observablesObject) :
            (closures'[gen'] = r.c /\ state' = r.st) =>
                \A i \in 1..Len(r.c.keys) :
                    LET key     == r.c.keys[i]
                        earlier == {r.c.keys[j] : j \in 1..(i - 1)}
                        later   == {r.c.keys[j] : j \in (i + 1)..Len(r.c.keys)}
                    IN  ( /\ r.sync[key].kind = "error"
                          /\ \A k \in earlier : r.sync[k].kind # "error" ) =>
                            /\ state' = Failed(r.sync[key].e)
                            /\ closures'[gen'].attached \cap later = {}
                            /\ \A k \in later : closures'[gen'].unsubs[k] = 0
                            /\ phase' = "idle"
                            /\ ~closures'[gen'].isSubscribed

\* C25: every effect run satisfies C25_SyncErrorStep: a synchronous error
\* stops the subscribing of later keys and leaves the state Errored with it.
C25_SyncErrorStopsSubscribing == [][C25_SyncErrorStep]_vars

\* key a failed with e1 while being subscribed; key b, whose value subscribe()
\* would have thrown for, was never subscribed: no crash, Errored with e1
C25_Witness ==
    \E g \in Gens :
        /\ closures[g].keys = <<"a", "b">>
        /\ closures[g].src["b"] = BadSrc
        /\ closures[g].attached = {"a"}
        /\ closures[g].valueCount = 0
        /\ ~Live(g)
        /\ phase = "idle"
        /\ state = Failed("e1")

\* C26: whenever a generation holds handles, unsubscribeAll run on it - with
\* the producers making every call they can from inside every handle - ends
\* with the flag cleared, each held handle invoked once more, and the state
\* cell and the collected values as they were; and while the handles are
\* being invoked, after any number of them, no single emission, error or
\* completion of an attached source changes anything.
C26_ReentrantCallsIgnored ==
    \A g \in Gens :
        closures[g].subscriptions # <<>> =>
            LET ctx     == Ctx(closures[g], state)
                handles == ctx.c.subscriptions
                r       == unsubscribeAll(ctx)
            IN  /\ r.st = state
                /\ r.c.values = ctx.c.values
                /\ r.c.valueCount = ctx.c.valueCount
                /\ ~r.c.isSubscribed
                /\ \A i \in 1..Len(handles) :
                       r.c.unsubs[handles[i]] = ctx.c.unsubs[handles[i]] + 1
                /\ \A n \in 0..Len(handles) :
                       LET cleared == [ctx EXCEPT !.c.isSubscribed = FALSE]
                           during  == InvokeAll(cleared, SubSeq(handles, 1, n))
                       IN  \A k \in ctx.c.attached :
                               \A i \in 1..Len(Deliveries(Mechanism(g, k))) :
                                   Deliver(during, k, Deliveries(Mechanism(g, k))[i])
                                       = during

\* a Ready generation torn down by the unmount: both handles invoked, the
\* flag cleared, the state and the values as the last emissions left them
C26_Witness ==
    \E g \in Gens :
        /\ phase = "unmounted"
        /\ ~Live(g)
        /\ closures[g].attached = {"a", "b"}
        /\ \A k \in {"a", "b"} : closures[g].unsubs[k] = 1
        /\ closures[g].values = [a |-> 1, b |-> 1]
        /\ state = Ready([a |-> 1, b |-> 1])

\* C27: no unsubscribe handle is ever invoked more than once, whatever the
\* sequence of source errors, generation changes and teardown.
C27_HandleInvokedAtMostOnce ==
    \A g \in Gens :
        \A k \in DOMAIN closures[g].unsubs : closures[g].unsubs[k] <= 1

\* a generation ended by a source error and torn down afterwards: each of
\* its handles was invoked by the error and not again by the teardown
C27_Witness ==
    \E g \in Gens :
        /\ phase = "unmounted"
        /\ gen = 1
        /\ state = Failed("e2")
        /\ closures[g].attached = {"a", "b"}
        /\ closures[g].valueCount = 2
        /\ \A k \in {"a", "b"} : closures[g].unsubs[k] = 1

\* C28: a generation with K >= 1 keys, all subscribed, every source of which
\* eventually emits, becomes Ready unless a source error, a generation
\* change or the teardown ends it first; and as long as some key of a
\* subscribed generation has not emitted and no error occurred, the state
\* is Loading.
C28_EventuallyReady ==
    /\ \A g \in 1..MaxGen :
          ( /\ gen = g
            /\ phase = "idle"
            /\ Live(g)
            /\ closures[g].keyCount >= 1 )
          ~> ( \/ IsReady(state)
               \/ phase # "idle"
               \/ gen # g
               \/ ~Live(g) )
    /\ [](\A g \in Gens :
            ( /\ g = gen
              /\ phase = "idle"
              /\ Live(g)
              /\ Emitted(g) # KeySet(closures[g]) ) => IsLoading(state))

\* two Observables subscribed, neither has emitted, nothing has failed:
\* Loading, with both emissions still to come
C28_Witness ==
    \E g \in Gens :
        /\ g = gen
        /\ phase = "idle"
        /\ Live(g)
        /\ closures[g].attached = {"a", "b"}
        /\ Emitted(g) = {}
        /\ IsLoading(state)
        /\ ENABLED FirstEmission

====
